---------------------------- MODULE Spec2Model ----------------------------
(***************************************************************************)
(* LedgerAI reconciliation engine: reconcile_invoice_with_ai               *)
(* (src/agents/reconciliation_agents.py).  One call of the function is     *)
(* modelled as a state machine: Begin (the empty check and the invoice     *)
(* coercions), Iterate (one pass of the for loop up to a return, a raise   *)
(* or the call of the judgment service), Judge (the service's answer and   *)
(* its handling) and Finish (the fall-through return).                     *)
(*                                                                         *)
(* Python values are tagged: a number, a string or None.  Amounts are      *)
(* whole numbers; the 5% bound is evaluated exactly (for the amounts used  *)
(* here Python's float arithmetic gives the same comparisons).  Service    *)
(* response texts are sequences of one-character strings so that strip,    *)
(* upper and startswith are computed, not assumed.                         *)
(*                                                                         *)
(* Around the call: the page that processes an uploaded invoice            *)
(* (src/app.py, SpecApp), the same call made twice against a deterministic *)
(* service stub (SpecTwice), and the storage module with its import-time   *)
(* initialization (src/core/db.py, SpecStorage).                           *)
(***************************************************************************)
EXTENDS Integers, Sequences, FiniteSets, TLC

VARIABLES
    invoice_data,      \* the invoice dict handed to reconcile
    transactions_df,   \* the DataFrame: a sequence of rows, in iteration order
    fuzz,              \* what fuzz.partial_ratio answers for each row's description
    pc,                \* "start" | "loop" | "judge" | "done"
    idx,               \* position of the row the loop is at
    result,            \* the returned dict (NoDecision until a return)
    exc,               \* the exception that left the function ("none" if none)
    scorer_calls,      \* positions of the rows fuzz.partial_ratio was called for
    responses          \* what generate_content did, by position of the row it was called for

vars == <<invoice_data, transactions_df, fuzz, pc, idx, result, exc,
          scorer_calls, responses>>

---------------------------------------------------------------------------
\* Bounds of the model

MaxTxns == 2

---------------------------------------------------------------------------
\* Python values

Num(n) == [t |-> "num", n |-> n, s |-> ""]
Str(s) == [t |-> "str", n |-> 0, s |-> s]
NoneVal == [t |-> "none", n |-> 0, s |-> ""]

\* dict.get(key, default)
Get(d, key, default) == IF key \in DOMAIN d THEN d[key] ELSE default

\* The string literals float() accepts, with their values
FloatLiterals == {"1000"}

FloatLiteralValue(s) == CASE s = "1000" -> 1000

\* float(v): the value, or the exception float() raises
Float(v) ==
    CASE v.t = "num" -> [ok |-> TRUE, v |-> v.n, exc |-> "none"]
      [] v.t = "str" /\ v.s \in FloatLiterals ->
             [ok |-> TRUE, v |-> FloatLiteralValue(v.s), exc |-> "none"]
      [] v.t = "str" /\ v.s \notin FloatLiterals ->
             [ok |-> FALSE, v |-> 0, exc |-> "ValueError"]
      [] v.t = "none" -> [ok |-> FALSE, v |-> 0, exc |-> "TypeError"]

\* str(v) for the values that reach it (strings and None)
PyStr(v) == CASE v.t = "str" -> v.s
              [] v.t = "none" -> "None"
              [] v.t = "num" -> "<number>"

\* str.lower() on the strings of the model
Lower(s) ==
    CASE s = "Debit" -> "debit"
      [] s = "DEBIT" -> "debit"
      [] s = "Credit" -> "credit"
      [] s = "Acme Corp" -> "acme corp"
      [] s = "INV-1042" -> "inv-1042"
      [] s = "Extraction Failed" -> "extraction failed"
      [] s = "N/A" -> "n/a"
      [] s = "None" -> "none"
      [] s = "ACH ACME CORP PMT" -> "ach acme corp pmt"
      [] OTHER -> s

Abs(x) == IF x < 0 THEN -x ELSE x

Max(a, b) == IF a >= b THEN a ELSE b


---------------------------------------------------------------------------
\* Texts of the judgment service: sequences of one-character strings

IsSpace(c) == c = " "

\* str.upper(), character by character
UpperChar(c) ==
    CASE c = "y" -> "Y"
      [] c = "e" -> "E"
      [] c = "s" -> "S"
      [] c = "n" -> "N"
      [] c = "o" -> "O"
      [] c = "f" -> "F"
      [] OTHER -> c

Upper(t) == [i \in 1..Len(t) |-> UpperChar(t[i])]

RECURSIVE LStrip(_)
LStrip(t) == IF t # <<>> /\ IsSpace(Head(t)) THEN LStrip(Tail(t)) ELSE t

RECURSIVE RStrip(_)
RStrip(t) ==
    IF t # <<>> /\ IsSpace(t[Len(t)]) THEN RStrip(SubSeq(t, 1, Len(t) - 1)) ELSE t

\* str.strip()
Strip(t) == RStrip(LStrip(t))

\* str.startswith(prefix)
StartsWith(t, prefix) ==
    Len(t) >= Len(prefix) /\ SubSeq(t, 1, Len(prefix)) = prefix

YES == <<"Y", "E", "S">>

---------------------------------------------------------------------------
\* The inputs of one call

\* Invoice dicts as the extraction step can produce them: a clean invoice, the
\* failure sentinel, a negative total, a total given as a numeric string, a
\* garbage total, a null total, and a dict without vendor_name and total_amount.
Invoices ==
    { [vendor_name |-> Str("Acme Corp"), invoice_number |-> Str("INV-1042"),
       total_amount |-> Num(1000)],
      [vendor_name |-> Str("Extraction Failed"), invoice_number |-> Str("N/A"),
       total_amount |-> Num(0)],
      [vendor_name |-> Str("Acme Corp"), invoice_number |-> Str("INV-1042"),
       total_amount |-> Num(-1000)],
      [vendor_name |-> Str("Acme Corp"), invoice_number |-> Str("INV-1042"),
       total_amount |-> Str("1000")],
      [vendor_name |-> Str("Acme Corp"), invoice_number |-> Str("INV-1042"),
       total_amount |-> Str("abc")],
      [vendor_name |-> Str("Acme Corp"), invoice_number |-> Str("INV-1042"),
       total_amount |-> NoneVal],
      [invoice_number |-> Str("INV-1042")] }

\* transactions.type as stored (the seed rows use 'Debit' and 'Credit')
TxnTypes == {"debit", "Debit", "Credit"}

\* transactions.amount: equal to the clean invoice's total, 5% below it, 20%
\* below it, and a cell that is no number (a CSV import stores it as text)
TxnAmounts == {Num(1000), Num(950), Num(800), Str("abc")}

\* fuzz.partial_ratio's answers for a row's description, against the vendor
\* name and against the invoice number: around the two thresholds
FuzzAnswers ==
    { [vendor |-> 50, num |-> 50],
      [vendor |-> 51, num |-> 60],
      [vendor |-> 61, num |-> 0] }

RowShapes == TxnTypes \X TxnAmounts

\* The row at position i (ids are the table's primary keys)
MkRow(i, shape) ==
    [id |-> 100 + i, description |-> "ACH ACME CORP PMT",
     amount |-> shape[2], type |-> shape[1], status |-> "Unreconciled"]

\* What generate_content can do: answer with a text, answer with an object
\* that has no text, or raise (outage, timeout)
ServiceTexts ==
    { <<"Y", "E", "S", ",", " ", "f", "e", "e">>,
      <<" ", "y", "e", "s", ".", " ">>,
      <<"N", "O", ".">>,
      <<"N", "o", " ", "Y", "E", "S">>,
      <<>> }

TextResponse(t) == [kind |-> "text", text |-> t]
NoTextResponse == [kind |-> "notext", text |-> <<>>]
RaisedResponse == [kind |-> "raised", text |-> <<>>]

ServiceResponses ==
    {TextResponse(t) : t \in ServiceTexts} \cup {NoTextResponse, RaisedResponse}


---------------------------------------------------------------------------
\* reconcile_invoice_with_ai: the expressions of the function

ExactTextThreshold == 50
FeeTextThreshold == 60
FeePercent == 5

NoDecision == [status |-> "<not returned>"]

PendingEmpty ==
    [status |-> "Pending",
     reason |-> <<"No bank transactions available to match.">>]

\* Mutant: the fall-through decision carries a transaction_id key
PendingNoMatch_WithId ==
    [status |-> "Pending",
     reason |-> <<"No matching payment found in bank transactions.">>,
     transaction_id |-> 0]

PendingNoMatch ==
    [status |-> "Pending",
     reason |-> <<"No matching payment found in bank transactions.">>]

\* txn.to_dict()
ToDict(txn) == txn

ExactMatch(txn) ==
    [status |-> "Exact Match",
     transaction_id |-> txn.id,
     confidence |-> "100%",
     reason |-> <<"Exact amount and strong text match found.">>,
     matched_data |-> ToDict(txn)]

AIReconciled(txn, response) ==
    [status |-> "AI Reconciled (With Fees)",
     transaction_id |-> txn.id,
     confidence |-> "90%",
     reason |-> Strip(response.text),
     matched_data |-> ToDict(txn)]

inv_vendor == Lower(PyStr(Get(invoice_data, "vendor_name", Str(""))))
inv_num == Lower(PyStr(Get(invoice_data, "invoice_number", Str(""))))
InvAmountParse == Float(Get(invoice_data, "total_amount", Num(0)))
inv_amount == InvAmountParse.v

\* Mutant: the direction filter lets credits through
IsDebit_AnyDirection(txn) == Lower(txn.type) \in {"debit", "credit"}

\* Mutant: a transaction already reconciled is passed over
IsDebit_SkipReconciled(txn) ==
    Lower(txn.type) = "debit" /\ txn.status # "Reconciled"

IsDebit(txn) == Lower(txn.type) = "debit"

txn_desc(txn) == Lower(txn.description)
TxnAmountParse(txn) == Float(txn.amount)
txn_amount(txn) == TxnAmountParse(txn).v

\* fuzz.partial_ratio(s1, s2): 0 for an empty string, else the library's answer
partial_ratio(s1, s2, answer) == IF s1 = "" \/ s2 = "" THEN 0 ELSE answer

vendor_match(i) == partial_ratio(inv_vendor, txn_desc(transactions_df[i]), fuzz[i].vendor)
num_match(i) == partial_ratio(inv_num, txn_desc(transactions_df[i]), fuzz[i].num)
text_score(i) == Max(vendor_match(i), num_match(i))

\* Mutant: the exact rule uses the fee rule's text threshold
IsExactMatch_FeeThreshold(invAmount, txnAmount, score) ==
    invAmount = txnAmount /\ score > FeeTextThreshold

IsExactMatch(invAmount, txnAmount, score) ==
    invAmount = txnAmount /\ score > ExactTextThreshold

amount_diff(invAmount, txnAmount) == Abs(invAmount - txnAmount)

\* amount_diff > 0 and amount_diff <= inv_amount * 0.05
is_within_fee_range(invAmount, txnAmount) ==
    /\ amount_diff(invAmount, txnAmount) > 0
    /\ amount_diff(invAmount, txnAmount) * 100 <= invAmount * FeePercent

AsksService(invAmount, txnAmount, score) ==
    score > FeeTextThreshold /\ is_within_fee_range(invAmount, txnAmount)

\* Mutant: YES anywhere in the text accepts ("YES" in ai_decision)
Accepted_ContainsYes(response) ==
    /\ response.kind = "text"
    /\ LET u == Upper(Strip(response.text)) IN
         \E i \in 1..Len(u) : StartsWith(SubSeq(u, i, Len(u)), YES)

\* The try block: a verdict only from a response that came back, has a text,
\* and whose stripped, uppercased text starts with YES
Accepted(response) ==
    /\ response.kind = "text"
    /\ StartsWith(Upper(Strip(response.text)), YES)

judge_calls == DOMAIN responses

---------------------------------------------------------------------------
\* The state machine

Init ==
    /\ invoice_data \in Invoices
    /\ \E n \in 0..MaxTxns :
         \E shapes \in [1..n -> RowShapes], answers \in [1..n -> FuzzAnswers] :
            /\ transactions_df = [i \in 1..n |-> MkRow(i, shapes[i])]
            /\ fuzz = answers
    /\ pc = "start"
    /\ idx = 0
    /\ result = NoDecision
    /\ exc = "none"
    /\ scorer_calls = {}
    /\ responses = <<>>

Return(decision) ==
    /\ pc' = "done"
    /\ result' = decision
    /\ exc' = "none"

Raise(exception) ==
    /\ pc' = "done"
    /\ exc' = exception
    /\ result' = NoDecision

Continue ==
    /\ pc' = "loop"
    /\ idx' = idx + 1
    /\ UNCHANGED <<result, exc>>

\* Mutant: the invoice's coercions run before the empty check
Begin_CoerceFirst ==
    /\ pc = "start"
    /\ IF ~InvAmountParse.ok
         THEN Raise(InvAmountParse.exc) /\ UNCHANGED idx
         ELSE IF Len(transactions_df) = 0
           THEN Return(PendingEmpty) /\ UNCHANGED idx
           ELSE /\ pc' = "loop"
                /\ idx' = 1
                /\ UNCHANGED <<result, exc>>
    /\ UNCHANGED <<invoice_data, transactions_df, fuzz, scorer_calls, responses>>

\* Mutant: the loop goes on from the row an earlier call stopped at
Begin_StaleCursor ==
    /\ pc = "start"
    /\ IF Len(transactions_df) = 0
         THEN Return(PendingEmpty) /\ UNCHANGED idx
         ELSE IF ~InvAmountParse.ok
           THEN Raise(InvAmountParse.exc) /\ UNCHANGED idx
           ELSE /\ pc' = "loop"
                /\ idx' = idx + 1
                /\ UNCHANGED <<result, exc>>
    /\ UNCHANGED <<invoice_data, transactions_df, fuzz, scorer_calls, responses>>

\* Lines 24-30: the empty check, then the invoice's coercions
Begin ==
    /\ pc = "start"
    /\ IF Len(transactions_df) = 0
         THEN Return(PendingEmpty) /\ UNCHANGED idx
         ELSE IF ~InvAmountParse.ok
           THEN Raise(InvAmountParse.exc) /\ UNCHANGED idx
           ELSE /\ pc' = "loop"
                /\ idx' = 1
                /\ UNCHANGED <<result, exc>>
    /\ UNCHANGED <<invoice_data, transactions_df, fuzz, scorer_calls, responses>>

\* Lines 33-65: one row of the loop, up to a return, a raise, the call of the
\* service, or the next row
Iterate ==
    /\ pc = "loop"
    /\ idx <= Len(transactions_df)
    /\ LET txn == transactions_df[idx] IN
         IF ~IsDebit(txn)
           THEN Continue /\ UNCHANGED scorer_calls
           ELSE IF ~TxnAmountParse(txn).ok
             THEN Raise(TxnAmountParse(txn).exc) /\ UNCHANGED <<idx, scorer_calls>>
             ELSE /\ scorer_calls' = scorer_calls \cup {idx}
                  /\ IF IsExactMatch(inv_amount, txn_amount(txn), text_score(idx))
                       THEN Return(ExactMatch(txn)) /\ UNCHANGED idx
                       ELSE IF AsksService(inv_amount, txn_amount(txn), text_score(idx))
                         THEN pc' = "judge" /\ UNCHANGED <<idx, result, exc>>
                         ELSE Continue
    /\ UNCHANGED <<invoice_data, transactions_df, fuzz, responses>>

\* Lines 78-95: generate_content answers or raises; YES returns, anything else
\* goes on with the next row
Judge ==
    /\ pc = "judge"
    /\ \E response \in ServiceResponses :
         /\ responses' = responses @@ (idx :> response)
         /\ IF Accepted(response)
              THEN Return(AIReconciled(transactions_df[idx], response)) /\ UNCHANGED idx
              ELSE Continue
    /\ UNCHANGED <<invoice_data, transactions_df, fuzz, scorer_calls>>

\* Line 98: the loop ran out
Finish ==
    /\ pc = "loop"
    /\ idx > Len(transactions_df)
    /\ Return(PendingNoMatch)
    /\ UNCHANGED <<invoice_data, transactions_df, fuzz, idx, scorer_calls, responses>>

Next == Begin \/ Iterate \/ Judge \/ Finish

---------------------------------------------------------------------------
\* The state around one call: the database (src/core/db.py), the page that
\* processes an uploaded invoice (src/app.py), a second call with the same
\* inputs, and the storage initialization run at import

VARIABLES
    db_schema,         \* the tables that exist
    db_companies,      \* table companies: a sequence of company names
    db_accounts,       \* table accounts: a sequence of [company_id, account_name]
    db_transactions,   \* table transactions: a sequence of rows
    db_invoices,       \* table invoices: a sequence of rows
    app_pc,            \* where render_invoice_processor is
    extracted_data,    \* what process_pdf_with_gemini returned
    amount_float,      \* the page's own parse of the extracted total
    invoice_id,        \* what save_invoice_to_db returned
    links,             \* the calls of mark_as_reconciled: <<invoice_id, transaction_id>>
    uploads,           \* invoices processed so far
    call,              \* 1 during the first call of reconcile, 2 during the second
    first,             \* the outcome of the first call
    stub,              \* the deterministic service stub: its answer per prompt
    csv,               \* data/bank_statement.csv: absent, or its content
    init_pc,           \* where the import-time sequence is
    init_runs          \* completed runs of the import-time sequence

dbvars == <<db_schema, db_companies, db_accounts, db_transactions, db_invoices>>
appvars == <<app_pc, extracted_data, amount_float, invoice_id, links, uploads>>
twicevars == <<call, first, stub>>
initvars == <<csv, init_pc, init_runs>>

allvars == <<vars, dbvars, appvars, twicevars, initvars>>

NoFirst == [result |-> NoDecision, exc |-> "none"]

\* The values of the variables a specification does not use
DbUnused ==
    /\ db_schema = {}
    /\ db_companies = <<>>
    /\ db_accounts = <<>>
    /\ db_transactions = <<>>
    /\ db_invoices = <<>>

AppUnused ==
    /\ app_pc = "off"
    /\ extracted_data = <<>>
    /\ amount_float = 0
    /\ invoice_id = 0
    /\ links = {}
    /\ uploads = 0

TwiceUnused ==
    /\ call = 1
    /\ first = NoFirst
    /\ stub = <<>>

InitUnused ==
    /\ csv = [exists |-> FALSE, readable |-> FALSE, rows |-> <<>>]
    /\ init_pc = "off"
    /\ init_runs = 0

---------------------------------------------------------------------------
\* One call of reconcile_invoice_with_ai on arbitrary inputs

ReconcileStep ==
    \/ Begin /\ UNCHANGED <<dbvars, appvars, twicevars, initvars>>
    \/ Iterate /\ UNCHANGED <<dbvars, appvars, twicevars, initvars>>
    \/ Judge /\ UNCHANGED <<dbvars, appvars, twicevars, initvars>>
    \/ Finish /\ UNCHANGED <<dbvars, appvars, twicevars, initvars>>

OneCall == Init /\ DbUnused /\ AppUnused /\ TwiceUnused /\ InitUnused

Spec == OneCall /\ [][ReconcileStep]_allvars

---------------------------------------------------------------------------
\* src/core/db.py: the tables and the two functions the page calls

Tables == {"companies", "accounts", "journal_entries", "ledger_lines",
           "transactions", "invoices"}

DefaultCompany == "LedgerAI Startup"

DefaultAccounts(company_id) ==
    << [company_id |-> company_id, account_name |-> "Chase Checking"],
       [company_id |-> company_id, account_name |-> "Accounts Receivable"],
       [company_id |-> company_id, account_name |-> "Software Revenue"],
       [company_id |-> company_id, account_name |-> "Stripe Processing Fees"] >>

\* The row save_invoice_to_db inserts
InvoiceRow(id, vendor_name, invoice_number, total_amount) ==
    [id |-> id, vendor_name |-> vendor_name, invoice_number |-> invoice_number,
     total_amount |-> total_amount, reconciliation_status |-> "Pending"]

\* UPDATE invoices SET reconciliation_status = 'Reconciled' WHERE id = ?
UpdateInvoices(invoices, id) ==
    [i \in DOMAIN invoices |->
        IF invoices[i].id = id
          THEN [invoices[i] EXCEPT !.reconciliation_status = "Reconciled"]
          ELSE invoices[i]]

\* UPDATE transactions SET status = 'Reconciled' WHERE id = ?
UpdateTransactions(transactions, id) ==
    [i \in DOMAIN transactions |->
        IF transactions[i].id = id
          THEN [transactions[i] EXCEPT !.status = "Reconciled"]
          ELSE transactions[i]]

\* mark_as_reconciled: both updates are committed, or an error is printed and
\* nothing is
mark_as_reconciled(inv_id, transaction_id) ==
    /\ \/ /\ db_invoices' = UpdateInvoices(db_invoices, inv_id)
          /\ db_transactions' = UpdateTransactions(db_transactions, transaction_id)
       \/ UNCHANGED <<db_invoices, db_transactions>>
    /\ links' = links \cup {<<inv_id, transaction_id>>}

\* save_invoice_to_db: the new row's id, or -1 when the insert failed
save_invoice_to_db(vendor_name, invoice_number, total_amount) ==
    \/ /\ db_invoices' = Append(db_invoices,
              InvoiceRow(Len(db_invoices) + 1, vendor_name, invoice_number, total_amount))
       /\ invoice_id' = Len(db_invoices) + 1
    \/ /\ invoice_id' = -1
       /\ UNCHANGED db_invoices

---------------------------------------------------------------------------
\* src/app.py, render_invoice_processor: the page's own parse of the total

\* The characters of the strings the page parses
Chars(s) ==
    CASE s = "$1,000.00" -> <<"$", "1", ",", "0", "0", "0", ".", "0", "0">>
      [] s = "None" -> <<"N", "o", "n", "e">>
      [] OTHER -> <<"?">>

DigitChars == <<"0", "1", "2", "3", "4", "5", "6", "7", "8", "9">>

IsDigit(c) == \E i \in 1..10 : DigitChars[i] = c

DigitValue(c) == (CHOOSE i \in 1..10 : DigitChars[i] = c) - 1

RECURSIVE DigitsOf(_)
DigitsOf(n) ==
    IF n < 10 THEN <<DigitChars[n + 1]>>
              ELSE Append(DigitsOf(n \div 10), DigitChars[(n % 10) + 1])

RECURSIVE DigitsValue(_)
DigitsValue(t) ==
    IF t = <<>> THEN 0
                ELSE 10 * DigitsValue(SubSeq(t, 1, Len(t) - 1)) + DigitValue(t[Len(t)])

\* str(v): a number prints as a float ("1000.0"), None as "None"
StrChars(v) ==
    CASE v.t = "num" ->
             (IF v.n < 0 THEN <<"-">> ELSE <<>>) \o DigitsOf(Abs(v.n)) \o <<".", "0">>
      [] v.t = "str" -> Chars(v.s)
      [] v.t = "none" -> Chars("None")

\* str.replace(c, "")
Remove(t, c) == SelectSeq(t, LAMBDA x : x # c)

\* float(text) for a decimal literal: sign, digits, at most one point (the
\* amounts of the model are whole, so the fraction digits carry no value)
FloatOfChars(t) ==
    LET body == IF t # <<>> /\ t[1] \in {"-", "+"} THEN Tail(t) ELSE t
        dots == {i \in 1..Len(body) : body[i] = "."}
        point == IF dots = {} THEN Len(body) + 1 ELSE CHOOSE i \in dots : TRUE
        whole == SubSeq(body, 1, point - 1)
        fraction == SubSeq(body, point + 1, Len(body))
        literal == /\ Cardinality(dots) <= 1
                   /\ \A i \in 1..Len(whole) : IsDigit(whole[i])
                   /\ \A i \in 1..Len(fraction) : IsDigit(fraction[i])
                   /\ Len(whole) + Len(fraction) >= 1
        sign == IF t # <<>> /\ t[1] = "-" THEN -1 ELSE 1
    IN  IF literal THEN [ok |-> TRUE, v |-> sign * DigitsValue(whole)]
                   ELSE [ok |-> FALSE, v |-> 0]

\* Lines 69-73: strip "$" and ",", float(), 0.0 on ValueError
AmountFloat(data) ==
    LET raw_amount ==
            Strip(Remove(Remove(StrChars(Get(data, "total_amount", Num(0))), "$"), ","))
        parsed == FloatOfChars(raw_amount)
    IN  IF parsed.ok THEN parsed.v ELSE 0

---------------------------------------------------------------------------
\* render_invoice_processor: one run of the page per uploaded invoice, against
\* a database that keeps what earlier runs wrote

MaxDbRows == 2
MaxUploads == 2

\* What process_pdf_with_gemini returns: the failure sentinel, or whatever JSON
\* object the model produced (a clean total, a formatted total, a null total)
ExtractionFailed ==
    [vendor_name |-> Str("Extraction Failed"), invoice_number |-> Str("N/A"),
     total_amount |-> Num(0), due_date |-> Str("N/A")]

ModelOutputs ==
    { [vendor_name |-> Str("Acme Corp"), invoice_number |-> Str("INV-1042"),
       total_amount |-> Num(1000), due_date |-> Str("2026-04-01")],
      [vendor_name |-> Str("Acme Corp"), invoice_number |-> Str("INV-1042"),
       total_amount |-> Str("$1,000.00"), due_date |-> Str("2026-04-01")],
      [vendor_name |-> Str("Acme Corp"), invoice_number |-> Str("INV-1042"),
       total_amount |-> NoneVal, due_date |-> Str("2026-04-01")] }

Extractions == ModelOutputs \cup {ExtractionFailed}

\* The rows of table transactions when the page runs
StoredShapes == {"Debit", "Credit"} \X {Num(1000), Num(950)}

\* No call of reconcile is in progress
NoCall ==
    /\ invoice_data = <<>>
    /\ transactions_df = <<>>
    /\ fuzz = <<>>
    /\ pc = "idle"
    /\ idx = 0
    /\ result = NoDecision
    /\ exc = "none"
    /\ scorer_calls = {}
    /\ responses = <<>>

AppInit ==
    /\ db_schema = Tables
    /\ db_companies = <<DefaultCompany>>
    /\ db_accounts = DefaultAccounts(1)
    /\ \E n \in 0..MaxDbRows :
         \E shapes \in [1..n -> StoredShapes] :
            db_transactions = [i \in 1..n |-> MkRow(i, shapes[i])]
    /\ db_invoices = <<>>
    /\ app_pc = "idle"
    /\ extracted_data = <<>>
    /\ amount_float = 0
    /\ invoice_id = 0
    /\ links = {}
    /\ uploads = 0
    /\ NoCall
    /\ TwiceUnused
    /\ InitUnused

\* The run ends: its locals are gone, the database stays
EndOfRun ==
    /\ app_pc' = "idle"
    /\ uploads' = uploads + 1
    /\ extracted_data' = <<>>
    /\ amount_float' = 0
    /\ invoice_id' = 0
    /\ invoice_data' = <<>>
    /\ transactions_df' = <<>>
    /\ fuzz' = <<>>
    /\ pc' = "idle"
    /\ idx' = 0
    /\ result' = NoDecision
    /\ exc' = "none"
    /\ scorer_calls' = {}
    /\ responses' = <<>>

\* Lines 62-81: extraction, the page's parse of the total, save_invoice_to_db
ProcessUpload ==
    /\ app_pc = "idle"
    /\ uploads < MaxUploads
    /\ \E data \in Extractions :
         /\ extracted_data' = data
         /\ amount_float' = AmountFloat(data)
         /\ save_invoice_to_db(Get(data, "vendor_name", Str("Unknown")),
                               Get(data, "invoice_number", Str("N/A")),
                               AmountFloat(data))
    /\ app_pc' = "saved"
    /\ UNCHANGED <<vars, db_schema, db_companies, db_accounts, db_transactions,
                   links, uploads, twicevars, initvars>>

\* Lines 92-98: read the company's transactions, call reconcile with the
\* extracted record
CallReconcile ==
    /\ app_pc = "saved"
    /\ transactions_df' = db_transactions
    /\ invoice_data' = extracted_data
    /\ \E answers \in [1..Len(db_transactions) -> FuzzAnswers] : fuzz' = answers
    /\ pc' = "start"
    /\ idx' = 0
    /\ result' = NoDecision
    /\ exc' = "none"
    /\ scorer_calls' = {}
    /\ responses' = <<>>
    /\ app_pc' = "reconcile"
    /\ UNCHANGED <<dbvars, extracted_data, amount_float, invoice_id, links, uploads,
                   twicevars, initvars>>

\* Line 98: the call runs
ReconcileInPage ==
    \/ app_pc = "reconcile" /\ Begin /\ UNCHANGED <<dbvars, appvars, twicevars, initvars>>
    \/ app_pc = "reconcile" /\ Iterate /\ UNCHANGED <<dbvars, appvars, twicevars, initvars>>
    \/ app_pc = "reconcile" /\ Judge /\ UNCHANGED <<dbvars, appvars, twicevars, initvars>>
    \/ app_pc = "reconcile" /\ Finish /\ UNCHANGED <<dbvars, appvars, twicevars, initvars>>

\* Mutant: the page marks the first transaction it read instead of the one
\* the decision names
ShowVerdict_FirstRow ==
    /\ app_pc = "reconcile"
    /\ pc = "done"
    /\ exc = "none"
    /\ IF /\ result.status \in {"Exact Match", "AI Reconciled (With Fees)"}
          /\ invoice_id # -1
          /\ "transaction_id" \in DOMAIN result
         THEN mark_as_reconciled(invoice_id, transactions_df[1].id)
         ELSE UNCHANGED <<db_invoices, db_transactions, links>>
    /\ EndOfRun
    /\ UNCHANGED <<db_schema, db_companies, db_accounts, twicevars, initvars>>

\* Lines 101-117: the verdict is shown; a match is written to the database
ShowVerdict ==
    /\ app_pc = "reconcile"
    /\ pc = "done"
    /\ exc = "none"
    /\ IF /\ result.status \in {"Exact Match", "AI Reconciled (With Fees)"}
          /\ invoice_id # -1
          /\ "transaction_id" \in DOMAIN result
         THEN mark_as_reconciled(invoice_id, result.transaction_id)
         ELSE UNCHANGED <<db_invoices, db_transactions, links>>
    /\ EndOfRun
    /\ UNCHANGED <<db_schema, db_companies, db_accounts, twicevars, initvars>>

\* Lines 119-120: an exception of the call is shown as an error
ShowError ==
    /\ app_pc = "reconcile"
    /\ pc = "done"
    /\ exc # "none"
    /\ EndOfRun
    /\ UNCHANGED <<dbvars, links, twicevars, initvars>>

AppNext ==
    \/ ProcessUpload
    \/ CallReconcile
    \/ ReconcileInPage
    \/ ShowVerdict
    \/ ShowError

SpecApp == AppInit /\ [][AppNext]_allvars

---------------------------------------------------------------------------
\* reconcile_invoice_with_ai called twice with the same invoice_data and
\* transactions_df, the judgment service replaced by a deterministic stub: its
\* answer is a function of the prompt

\* Lines 66-76: what the prompt is built from
Prompt(i) ==
    LET txn == transactions_df[i] IN
      <<inv_vendor, inv_num, inv_amount, txn_desc(txn), txn_amount(txn),
        amount_diff(inv_amount, txn_amount(txn))>>

\* Lines 78-95 with the stub as the service: a prompt seen before gets the
\* answer it got before
JudgeStub ==
    /\ Judge
    /\ LET p == Prompt(idx) IN
         IF p \in DOMAIN stub
           THEN responses'[idx] = stub[p] /\ UNCHANGED stub
           ELSE stub' = stub @@ (p :> responses'[idx])
    /\ UNCHANGED <<call, first>>

\* The first call is over; the caller calls again with the same arguments
CallAgain ==
    /\ call = 1
    /\ pc = "done"
    /\ first' = [result |-> result, exc |-> exc]
    /\ call' = 2
    /\ pc' = "start"
    /\ result' = NoDecision
    /\ exc' = "none"
    /\ scorer_calls' = {}
    /\ responses' = <<>>
    /\ UNCHANGED <<invoice_data, transactions_df, fuzz, idx, stub>>

TwiceNext ==
    \/ Begin /\ UNCHANGED <<dbvars, appvars, twicevars, initvars>>
    \/ Iterate /\ UNCHANGED <<dbvars, appvars, twicevars, initvars>>
    \/ JudgeStub /\ UNCHANGED <<dbvars, appvars, initvars>>
    \/ Finish /\ UNCHANGED <<dbvars, appvars, twicevars, initvars>>
    \/ CallAgain /\ UNCHANGED <<dbvars, appvars, initvars>>

SpecTwice == OneCall /\ [][TwiceNext]_allvars

---------------------------------------------------------------------------
\* src/core/db.py as a module: the sequence run at import (init_db,
\* seed_default_company, migrate_csv_to_db), run again at every start of the
\* program against the same database file, and between the runs the two
\* functions the program calls

MaxRuns == 3
MaxCsvRows == 2
MaxInvoices == 1

\* data/bank_statement.csv: absent, unreadable (read_csv or to_sql raises), or
\* a table of rows
CsvAbsent == [exists |-> FALSE, readable |-> FALSE, rows |-> <<>>]
CsvUnreadable == [exists |-> TRUE, readable |-> FALSE, rows |-> <<>>]
CsvShapes == {"Debit", "Credit"} \X {Num(1000), Num(950)}
CsvTables ==
    UNION { { [exists |-> TRUE, readable |-> TRUE, rows |-> shapes] :
                shapes \in [1..n -> CsvShapes] } : n \in 0..MaxCsvRows }
CsvFiles == {CsvAbsent, CsvUnreadable} \cup CsvTables

\* Lines 152-157: the fallback rows (amounts in hundredths)
seed_transactions ==
    << [id |-> 1, description |-> "Amazon Web Services", amount |-> Num(15000),
        type |-> "Debit", status |-> "Unreconciled"],
       [id |-> 2, description |-> "Stripe Payout", amount |-> Num(250000),
        type |-> "Credit", status |-> "Unreconciled"],
       [id |-> 3, description |-> "GitHub Copilot", amount |-> Num(1000),
        type |-> "Debit", status |-> "Unreconciled"],
       [id |-> 4, description |-> "GCP Cloud Compute", amount |-> Num(34250),
        type |-> "Debit", status |-> "Unreconciled"] >>

\* Lines 142-146: the CSV's rows as to_sql appends them (status 'Unreconciled')
CsvRows(file) == [i \in 1..Len(file.rows) |-> MkRow(i, file.rows[i])]

StorageInit ==
    /\ db_schema = {}
    /\ db_companies = <<>>
    /\ db_accounts = <<>>
    /\ db_transactions = <<>>
    /\ db_invoices = <<>>
    /\ csv \in CsvFiles
    /\ init_pc = "init_db"
    /\ init_runs = 0
    /\ invoice_id = 0
    /\ links = {}
    /\ app_pc = "off"
    /\ extracted_data = <<>>
    /\ amount_float = 0
    /\ uploads = 0
    /\ NoCall
    /\ TwiceUnused

\* Lines 22-100: CREATE TABLE IF NOT EXISTS for each table
init_db ==
    /\ init_pc = "init_db"
    /\ db_schema' = db_schema \cup Tables
    /\ init_pc' = "seed"
    /\ UNCHANGED <<db_companies, db_accounts, db_transactions, db_invoices,
                   csv, init_runs>>

\* Lines 102-131: the company and its accounts, when there is no company
seed_default_company ==
    /\ init_pc = "seed"
    /\ IF Len(db_companies) = 0
         THEN /\ db_companies' = Append(db_companies, DefaultCompany)
              /\ db_accounts' = db_accounts \o DefaultAccounts(Len(db_companies) + 1)
         ELSE UNCHANGED <<db_companies, db_accounts>>
    /\ init_pc' = "migrate"
    /\ UNCHANGED <<db_schema, db_transactions, db_invoices, csv, init_runs>>

\* Mutant: the CSV is loaded, or the fallback rows inserted, at every run
migrate_csv_to_db_EveryRun ==
    /\ init_pc = "migrate"
    /\ IF csv.exists
         THEN IF csv.readable
                THEN db_transactions' = db_transactions \o CsvRows(csv)
                ELSE UNCHANGED db_transactions
         ELSE db_transactions' = db_transactions \o seed_transactions
    /\ init_pc' = "ran"
    /\ init_runs' = init_runs + 1
    /\ UNCHANGED <<db_schema, db_companies, db_accounts, db_invoices, csv>>

\* Lines 133-164: when the table is empty, the CSV's rows, or the fallback
\* rows when there is no CSV; a CSV that cannot be loaded leaves the table empty
migrate_csv_to_db ==
    /\ init_pc = "migrate"
    /\ IF Len(db_transactions) = 0
         THEN IF csv.exists
                THEN IF csv.readable
                       THEN db_transactions' = db_transactions \o CsvRows(csv)
                       ELSE UNCHANGED db_transactions
                ELSE db_transactions' = db_transactions \o seed_transactions
         ELSE UNCHANGED db_transactions
    /\ init_pc' = "ran"
    /\ init_runs' = init_runs + 1
    /\ UNCHANGED <<db_schema, db_companies, db_accounts, db_invoices, csv>>

\* The program is started again: the module is imported, lines 205-208 run
Restart ==
    /\ init_pc = "ran"
    /\ init_runs < MaxRuns
    /\ init_pc' = "init_db"
    /\ UNCHANGED <<dbvars, csv, init_runs>>

\* Between two starts the program saves an invoice
ClientSaves ==
    /\ init_pc = "ran"
    /\ Len(db_invoices) < MaxInvoices
    /\ save_invoice_to_db(Str("Acme Corp"), Str("INV-1042"), 1000)
    /\ UNCHANGED <<db_schema, db_companies, db_accounts, db_transactions, initvars,
                   vars, twicevars, app_pc, extracted_data, amount_float, links, uploads>>

\* Between two starts the program marks a saved invoice and a transaction
ClientMarks ==
    /\ init_pc = "ran"
    /\ invoice_id > 0
    /\ \E t \in DOMAIN db_transactions :
         mark_as_reconciled(invoice_id, db_transactions[t].id)
    /\ UNCHANGED <<db_schema, db_companies, db_accounts, initvars,
                   vars, twicevars, app_pc, extracted_data, amount_float, invoice_id,
                   uploads>>

StorageNext ==
    \/ init_db /\ UNCHANGED <<vars, appvars, twicevars>>
    \/ seed_default_company /\ UNCHANGED <<vars, appvars, twicevars>>
    \/ migrate_csv_to_db /\ UNCHANGED <<vars, appvars, twicevars>>
    \/ Restart /\ UNCHANGED <<vars, appvars, twicevars>>
    \/ ClientSaves
    \/ ClientMarks

SpecStorage == StorageInit /\ [][StorageNext]_allvars


---------------------------------------------------------------------------
\* Vocabulary of the properties, stated on the inputs and the outcome

Returned == pc = "done" /\ exc = "none"

Rows == 1..Len(transactions_df)

Matched == {"Exact Match", "AI Reconciled (With Fees)"}

\* type equals 'debit' case-insensitively
RowIsDebit(i) == transactions_df[i].type \in {"debit", "Debit", "DEBIT"}

RowAmountIsNumber(i) == transactions_df[i].amount.t = "num"

RowAmount(i) == transactions_df[i].amount.n

\* A debit row whose amount cell is no number
RowIsFaulty(i) == RowIsDebit(i) /\ ~RowAmountIsNumber(i)

\* The exact-match rule: a debit of exactly the invoice's amount, text_score > 50
ExactRule(i) ==
    /\ RowIsDebit(i)
    /\ RowAmountIsNumber(i)
    /\ InvAmountParse.ok
    /\ RowAmount(i) = inv_amount
    /\ text_score(i) > 50

\* 0 < |invoice_amount - txn_amount| <= 0.05 * invoice_amount
WithinFeeTolerance(i) ==
    /\ RowAmount(i) # inv_amount
    /\ 20 * (RowAmount(i) - inv_amount) <= inv_amount
    /\ 20 * (inv_amount - RowAmount(i)) <= inv_amount

\* The fee-tolerance rule's condition for asking the judgment service
FeeRule(i) ==
    /\ RowIsDebit(i)
    /\ RowAmountIsNumber(i)
    /\ InvAmountParse.ok
    /\ text_score(i) > 60
    /\ WithinFeeTolerance(i)

\* The service's texts that, trimmed and uppercased, start with YES
YesTexts ==
    { <<"Y", "E", "S", ",", " ", "f", "e", "e">>,
      <<" ", "y", "e", "s", ".", " ">> }

SaidYes(response) == response.kind = "text" /\ response.text \in YesTexts

\* The trimmed text of an accepting response
Explanation(response) ==
    IF response.text = <<" ", "y", "e", "s", ".", " ">>
      THEN <<"y", "e", "s", ".">>
      ELSE response.text

AcceptedAt(i) == i \in DOMAIN responses /\ SaidYes(responses[i])

\* A row qualifies under the exact rule, or under the fee rule with an
\* accepting verdict
Qualifies(i) == ExactRule(i) \/ (FeeRule(i) /\ AcceptedAt(i))

ExactDecision(i) ==
    [status |-> "Exact Match",
     transaction_id |-> transactions_df[i].id,
     confidence |-> "100%",
     reason |-> <<"Exact amount and strong text match found.">>,
     matched_data |-> transactions_df[i]]

FeeDecision(i) ==
    [status |-> "AI Reconciled (With Fees)",
     transaction_id |-> transactions_df[i].id,
     confidence |-> "90%",
     reason |-> Explanation(responses[i]),
     matched_data |-> transactions_df[i]]

HasExactRow == \E i \in Rows : ExactRule(i)

FirstExactRow == CHOOSE i \in Rows : ExactRule(i) /\ \A j \in 1..(i - 1) : ~ExactRule(j)

\* The position of the row a matched decision names
RowOfResult == CHOOSE i \in Rows : transactions_df[i].id = result.transaction_id


---------------------------------------------------------------------------
\* C1 (as claimed): whenever the sequence holds a debit of exactly the
\* invoice's amount with text_score > 50, the returned decision is ExactMatch,
\* 100%, naming such a transaction, whatever other candidates come before it.
C1_ExactAlwaysWins ==
    (Returned /\ HasExactRow) =>
        /\ result.status = "Exact Match"
        /\ result.confidence = "100%"
        /\ \E i \in Rows :
             /\ ExactRule(i)
             /\ result.transaction_id = transactions_df[i].id
             /\ result.matched_data = transactions_df[i]

\* C1 (amended): when the sequence holds exact-rule transactions, the call ends
\* with ExactMatch, 100%, id and snapshot of the earliest of them, whatever else
\* the sequence holds, unless the scan ends at an earlier row: an earlier
\* fee-tolerant candidate that the service accepts is returned as AIReconciled
\* instead, and an earlier debit row whose amount is no number makes the call
\* raise.
C1_ExactWinsUnlessScanEndsEarlier ==
    (pc = "done" /\ HasExactRow) =>
        LET k == FirstExactRow IN
          \/ exc = "none" /\ result = ExactDecision(k)
          \/ /\ exc = "none"
             /\ \E j \in 1..(k - 1) :
                  FeeRule(j) /\ AcceptedAt(j) /\ result = FeeDecision(j)
          \/ /\ exc = "ValueError"
             /\ \E j \in 1..(k - 1) : RowIsFaulty(j) /\ idx = j

\* An exact-rule transaction in second place is returned after a fee-tolerant
\* candidate that the service did not accept
C1_Witness ==
    /\ Returned
    /\ Len(transactions_df) = 2
    /\ 1 \in DOMAIN responses
    /\ result = ExactDecision(2)

\* C2: the transaction a decision names is the earliest that qualifies (exact
\* rule, or fee rule with an accepting verdict); every earlier fee-tolerant
\* candidate was put to the service and not accepted; no later row was scored
\* or put to the service; and a Pending decision means no row qualified.
C2_FirstQualifyingWins ==
    Returned =>
        IF result.status \in Matched
          THEN LET k == RowOfResult IN
                 /\ Qualifies(k)
                 /\ \A j \in 1..(k - 1) : ~Qualifies(j)
                 /\ \A j \in 1..(k - 1) : FeeRule(j) => j \in DOMAIN responses
                 /\ scorer_calls \subseteq 1..k
                 /\ DOMAIN responses \subseteq 1..k
          ELSE \A j \in Rows : ~Qualifies(j)

\* Two rows qualify under the exact rule: the first is returned and the scorer
\* was never called for the second
C2_Witness ==
    /\ Returned
    /\ Len(transactions_df) = 2
    /\ ExactRule(1) /\ ExactRule(2)
    /\ result.status = "Exact Match"
    /\ result.transaction_id = transactions_df[1].id
    /\ scorer_calls = {1}

\* C3: a returned decision carries transaction_id iff its status is ExactMatch
\* or AIReconciled; the only other status is Pending.
C3_TransactionIdIffMatched ==
    Returned =>
        /\ result.status \in Matched \cup {"Pending"}
        /\ ("transaction_id" \in DOMAIN result) <=> (result.status \in Matched)

C3_Witness ==
    /\ Returned
    /\ result.status = "AI Reconciled (With Fees)"
    /\ "transaction_id" \in DOMAIN result

\* C4: a matched decision names a row of the input whose type is 'debit' in any
\* letter case, with that row as matched_data; no credit row is ever scored,
\* put to the service or returned.
C4_OnlyDebitsEligible ==
    /\ \A i \in scorer_calls \cup DOMAIN responses : RowIsDebit(i)
    /\ (Returned /\ result.status \in Matched) =>
           /\ \E i \in Rows :
                /\ transactions_df[i].id = result.transaction_id
                /\ RowIsDebit(i)
                /\ result.matched_data = transactions_df[i]
           /\ \A i \in Rows :
                transactions_df[i].type = "Credit" =>
                    transactions_df[i].id # result.transaction_id

\* A 'Debit' row (capital D) is returned after a credit row of the same amount
\* and text score was passed over
C4_Witness ==
    /\ Returned
    /\ Len(transactions_df) = 2
    /\ transactions_df[1].type = "Credit"
    /\ transactions_df[1].amount = transactions_df[2].amount
    /\ fuzz[1] = fuzz[2]
    /\ transactions_df[2].type = "Debit"
    /\ result.status \in Matched
    /\ result.transaction_id = transactions_df[2].id

\* C8: with an empty sequence the call returns Pending with the reason that no
\* transactions are available, for every invoice, without raising and without a
\* call of the scorer or of the service.
C8_EmptyIsPending ==
    (pc = "done" /\ Len(transactions_df) = 0) =>
        /\ exc = "none"
        /\ result = [status |-> "Pending",
                     reason |-> <<"No bank transactions available to match.">>]
        /\ scorer_calls = {}
        /\ DOMAIN responses = {}

\* The empty sequence with an invoice whose total is garbage
C8_Witness ==
    /\ Returned
    /\ Len(transactions_df) = 0
    /\ "total_amount" \in DOMAIN invoice_data
    /\ invoice_data.total_amount = Str("abc")
    /\ result.status = "Pending"


---------------------------------------------------------------------------
\* The rows the service has been, or is being, asked about
Asked == DOMAIN responses \cup (IF pc = "judge" THEN {idx} ELSE {})

NoRowQualifies == \A j \in Rows : ~Qualifies(j)

\* C5, first part (holds): a scored debit row that fails the exact rule and
\* meets the fee rule's condition is put to the service.
C5_FeeCandidateIsAsked ==
    \A i \in scorer_calls : (FeeRule(i) /\ ~ExactRule(i)) => i \in Asked

\* C5, second part (holds): an accepting verdict returns AIReconciled at once,
\* 90%, the trimmed response text as reason, that row's id and snapshot.
C5_AcceptedReturnsFeeDecision ==
    \A i \in DOMAIN responses :
        SaidYes(responses[i]) => (Returned /\ result = FeeDecision(i))

\* C5, third part (holds): a candidate that is not accepted is passed over for
\* good: the scan moves beyond it and no decision names it.
C5_RejectedIsSkipped ==
    \A i \in DOMAIN responses :
        ~SaidYes(responses[i]) =>
            /\ idx > i
            /\ result.status \in Matched =>
                   result.transaction_id # transactions_df[i].id

\* C5, last part: after a candidate was not accepted, and with no row that
\* qualifies, the call ends with Pending.
C5_RejectedThenPending ==
    ( /\ pc = "done"
      /\ \E i \in DOMAIN responses : ~SaidYes(responses[i])
      /\ NoRowQualifies )
    => (Returned /\ result.status = "Pending")

\* C5: the fee-tolerance rule as claimed (all four parts).
C5_FeeToleranceRule ==
    /\ C5_FeeCandidateIsAsked
    /\ C5_AcceptedReturnsFeeDecision
    /\ C5_RejectedIsSkipped
    /\ C5_RejectedThenPending

\* C6, first part (holds): a row the service was asked about is returned as
\* AIReconciled iff the response has a text that, trimmed and uppercased,
\* starts with YES.
C6_AcceptedIffYes ==
    \A i \in DOMAIN responses :
        SaidYes(responses[i]) <=>
            /\ Returned
            /\ result.status = "AI Reconciled (With Fees)"
            /\ result.transaction_id = transactions_df[i].id

\* C6, second part (holds): any other response, a response without text or a
\* raised exception forfeits that candidate only: the scan goes on to the next
\* row, and an exception that leaves the call comes from a coercion (the
\* invoice's total or the amount of the row the scan is at), never from the
\* service.
C6_FailureForfeitsCandidateOnly ==
    /\ \A i \in DOMAIN responses : ~SaidYes(responses[i]) => idx > i
    /\ pc = "judge" => exc = "none"
    /\ exc # "none" =>
           \/ ~InvAmountParse.ok
           \/ idx \in Rows /\ RowIsFaulty(idx) /\ idx \notin DOMAIN responses

\* C6, last part: with a total outage (every call of the service raised) the
\* call still completes: ExactMatch if an exact-rule row exists, else Pending.
C6_OutageStillCompletes ==
    ( /\ pc = "done"
      /\ DOMAIN responses # {}
      /\ \A i \in DOMAIN responses : responses[i].kind = "raised" )
    => /\ Returned
       /\ IF HasExactRow
            THEN result = ExactDecision(FirstExactRow)
            ELSE result.status = "Pending"

\* C6: the resolver fails closed, as claimed (all three parts).
C6_ResolverFailsClosed ==
    /\ C6_AcceptedIffYes
    /\ C6_FailureForfeitsCandidateOnly
    /\ C6_OutageStillCompletes

\* C7, first part (holds): the service is asked about a row only if the row is
\* a debit, text_score > 60 and 0 < |invoice - txn| <= 5% of the invoice; so
\* never for an equal amount, a wider gap, an invoice amount <= 0 or a credit.
C7_AskedOnlyUnderFeeRule ==
    \A i \in Asked :
        /\ FeeRule(i)
        /\ RowAmount(i) # inv_amount
        /\ inv_amount > 0
        /\ transactions_df[i].type # "Credit"

\* C7, last part: when all transactions are credits there are zero calls and
\* the result is Pending.
C7_AllCreditsPending ==
    (\A i \in Rows : ~RowIsDebit(i)) =>
        /\ Asked = {}
        /\ pc = "done" => (Returned /\ result.status = "Pending")

\* C7: the service is invoked only under the fee rule, as claimed (both parts).
C7_ServiceOnlyUnderFeeRule ==
    /\ C7_AskedOnlyUnderFeeRule
    /\ C7_AllCreditsPending

\* The invoice's total_amount is missing, null or a string that is no number
InvoiceTotalMalformed ==
    \/ "total_amount" \notin DOMAIN invoice_data
    \/ invoice_data.total_amount.t = "none"
    \/ invoice_data.total_amount.t = "str" /\ invoice_data.total_amount.s = "abc"

\* C9: with a non-empty sequence (of well-formed rows) and an invoice whose
\* total_amount is missing or unparseable, the call does not raise: it treats
\* the amount as 0.0 and returns a decision (Pending here, no row has amount 0).
C9_MalformedInvoiceCoerced ==
    ( /\ pc = "done"
      /\ Len(transactions_df) > 0
      /\ InvoiceTotalMalformed
      /\ \A i \in Rows : ~RowIsFaulty(i) )
    => (Returned /\ result.status = "Pending")

\* C9, the part that holds: a missing total_amount is read as 0.0, and a
\* missing vendor_name as the empty string.
C9_MissingFieldsDefaulted ==
    /\ "total_amount" \notin DOMAIN invoice_data => (InvAmountParse.ok /\ inv_amount = 0)
    /\ "vendor_name" \notin DOMAIN invoice_data => inv_vendor = ""
    /\ ( /\ pc = "done"
         /\ "total_amount" \notin DOMAIN invoice_data
         /\ \A i \in Rows : ~RowIsFaulty(i) )
       => (Returned /\ result.status = "Pending")

\* C10: with a well-formed invoice, a debit row whose amount cannot be parsed
\* does not abort the scan: the call returns, and an exact-rule row that no
\* accepted candidate precedes is returned even when a faulty row precedes it.
C10_FaultyRowSkipped ==
    ( /\ pc = "done"
      /\ InvAmountParse.ok
      /\ \E i \in Rows : RowIsFaulty(i) )
    => /\ Returned
       /\ (HasExactRow /\ \A j \in 1..(FirstExactRow - 1) : ~AcceptedAt(j))
              => result = ExactDecision(FirstExactRow)

---------------------------------------------------------------------------
\* Claims about the page and the database

\* The page is inside its call of reconcile
InCall == app_pc = "reconcile"

\* A JSON number
IsNumber(v) == v.t = "num"

\* C11 (as claimed): whatever the extraction step produced (the failure
\* sentinel, or any object the model answered with), the record the page hands
\* to reconcile carries a numeric total_amount: the total the page parsed and
\* saved, 0 after a failed extraction.
C11_MatcherGetsNumericTotal ==
    InCall =>
        /\ "total_amount" \in DOMAIN invoice_data
        /\ IsNumber(invoice_data.total_amount)
        /\ invoice_data.total_amount.n = amount_float

\* C11, the part that holds: after a failed extraction the record handed to
\* reconcile is the sentinel with total 0
C11_FailureGivesZeroTotal ==
    (InCall /\ extracted_data = ExtractionFailed) =>
        /\ invoice_data.total_amount = Num(0)
        /\ amount_float = 0

\* The status column of a table, row by row
TxnStatuses(table) == [i \in DOMAIN table |-> table[i].status]
InvStatuses(table) == [i \in DOMAIN table |-> table[i].reconciliation_status]

\* Every invoice that was in the table keeps its status
InvoicesKeepStatus ==
    \A i \in DOMAIN db_invoices :
        db_invoices'[i].reconciliation_status = db_invoices[i].reconciliation_status

TransactionsKeepStatus == TxnStatuses(db_transactions') = TxnStatuses(db_transactions)

\* C12: the steps of reconcile change no status and call nothing that does;
\* mark_as_reconciled is called only by the page, only on a returned decision
\* whose status is ExactMatch or AIReconciled, with the page's invoice id and
\* that decision's transaction_id; a status changes only in such a call, only
\* to 'Reconciled', and only for the invoice and the transaction of the call;
\* after a Pending decision (and after a failed call) every transaction and
\* every invoice keeps the status it had.
C12_PersistenceOnlyAfterMatch ==
    [][ /\ (InCall /\ InCall') =>
               UNCHANGED <<db_transactions, db_invoices, links>>
        /\ (links' # links) =>
               /\ InCall /\ Returned
               /\ result.status \in Matched
               /\ links' = links \cup {<<invoice_id, result.transaction_id>>}
        /\ (links' = links) => (InvoicesKeepStatus /\ TransactionsKeepStatus)
        /\ \A i \in DOMAIN db_transactions :
               db_transactions'[i].status # db_transactions[i].status =>
                   /\ db_transactions[i].id = result.transaction_id
                   /\ db_transactions'[i].status = "Reconciled"
        /\ \A i \in DOMAIN db_invoices :
               db_invoices'[i].reconciliation_status
                       # db_invoices[i].reconciliation_status =>
                   /\ db_invoices[i].id = invoice_id
                   /\ db_invoices'[i].reconciliation_status = "Reconciled"
        /\ (InCall /\ pc = "done" /\ (exc # "none" \/ result.status = "Pending")) =>
               (InvoicesKeepStatus /\ TransactionsKeepStatus /\ links' = links)
      ]_allvars

\* An earlier upload was matched and written to the database; the present
\* upload's call returned Pending, with the second of two transactions still
\* Unreconciled
C12_Witness ==
    /\ InCall /\ Returned
    /\ result.status = "Pending"
    /\ links = {<<1, 101>>}
    /\ Len(db_transactions) = 2
    /\ TxnStatuses(db_transactions) = <<"Reconciled", "Unreconciled">>
    /\ InvStatuses(db_invoices) = <<"Reconciled", "Pending">>

---------------------------------------------------------------------------
\* Claims about repeated calls

SecondCallOver == call = 2 /\ pc = "done"

---------------------------------------------------------------------------
\* Claims about the storage initialization

\* A run of the sequence after the first is in progress
Rerunning == init_runs >= 1 /\ init_pc \in {"init_db", "seed", "migrate"}

\* How many transactions the first run leaves: the CSV's rows, none when the
\* CSV cannot be loaded, the four fallback rows when there is no CSV
FirstPopulation ==
    IF ~csv.exists THEN 4 ELSE IF csv.readable THEN Len(csv.rows) ELSE 0

DistinctIds(table) ==
    \A i, j \in DOMAIN table : table[i].id = table[j].id => i = j

\* C14: with the CSV file as it was at the first run, no step of a later run
\* of init_db; seed_default_company; migrate_csv_to_db changes the database,
\* whatever invoices were saved and whatever statuses were set in between:
\* the tables, the one company, its four accounts, the transactions and the
\* invoices with their statuses stay as they were, and nothing is inserted
\* twice.
C14_RerunChangesNothing ==
    [][ /\ Rerunning =>
               UNCHANGED <<db_schema, db_companies, db_accounts, db_transactions,
                           db_invoices>>
        /\ init_runs >= 1 =>
               /\ db_schema = {"companies", "accounts", "journal_entries",
                               "ledger_lines", "transactions", "invoices"}
               /\ db_companies = <<"LedgerAI Startup">>
               /\ Len(db_accounts) = 4
               /\ \A i \in 1..4 : db_accounts[i].company_id = 1
               /\ Len(db_transactions) = FirstPopulation
               /\ DistinctIds(db_transactions)
               /\ DistinctIds(db_invoices)
      ]_allvars

\* The second run is at migrate_csv_to_db; since the first run an invoice was
\* saved and it and one of the four fallback transactions were marked
C14_Witness ==
    /\ init_runs = 1
    /\ init_pc = "migrate"
    /\ Len(db_transactions) = 4
    /\ \E t \in DOMAIN db_transactions : db_transactions[t].status = "Reconciled"
    /\ Len(db_invoices) = 1
    /\ db_invoices[1].reconciliation_status = "Reconciled"

---------------------------------------------------------------------------
\* Claims about the status column

\* The row without its status
StatusBlind(row) ==
    [id |-> row.id, description |-> row.description, amount |-> row.amount,
     type |-> row.type]

\* The earliest row that qualifies; whether a row qualifies is a matter of its
\* type, its amount, its text score and the service's verdict, not its status
FirstQualifying == CHOOSE i \in Rows : Qualifies(i) /\ \A j \in 1..(i - 1) : ~Qualifies(j)

\* C15: whatever the status of each transaction ('Unreconciled', or
\* 'Reconciled' by an earlier upload), the decision's status and
\* transaction_id are those of the earliest row that qualifies by type,
\* amount, text score and verdict, and Pending when none does; a transaction
\* that is already Reconciled is returned like any other.
C15_DecisionIgnoresStatus ==
    (InCall /\ Returned) =>
        /\ \A i \in Rows : transactions_df[i].status \in {"Unreconciled", "Reconciled"}
        /\ IF \E i \in Rows : Qualifies(i)
             THEN /\ result.status \in Matched
                  /\ result.transaction_id = transactions_df[FirstQualifying].id
                  /\ StatusBlind(result.matched_data)
                         = StatusBlind(transactions_df[FirstQualifying])
             ELSE result.status = "Pending"

\* A transaction that an earlier upload marked Reconciled, linked to that
\* upload's invoice, is returned for the present invoice
C15_Witness ==
    /\ InCall /\ Returned
    /\ result.status = "Exact Match"
    /\ result.matched_data.status = "Reconciled"
    /\ invoice_id = 2
    /\ <<1, result.transaction_id>> \in links

\* The same transaction has been linked to two invoices, both Reconciled
C15_LinkedTwice ==
    /\ app_pc = "idle"
    /\ \E t \in DOMAIN db_transactions :
         {<<1, db_transactions[t].id>>, <<2, db_transactions[t].id>>} \subseteq links
    /\ InvStatuses(db_invoices) = <<"Reconciled", "Reconciled">>

============================================================================
